---- MODULE Spec2Model ----
(***************************************************************************)
(* Beat-grid analysers analyze_beatgrid.py (variant 1, analyze) and        *)
(* analyze_beatgrid_v2.py (variant 2, analyze_v2).                         *)
(*                                                                         *)
(* Units.  Times are integer milliseconds; a tempo is an integer number of *)
(* hundredths of a beat per minute and a rounded bpm an integer number of  *)
(* tenths; a grid offset is an exact fraction [num, den] of milliseconds;  *)
(* a confidence is an integer number of hundredths (ConfOne is 1.0).       *)
(* Python's None is the empty sequence and a present value v is <<v>>.     *)
(* Paths are sequences of one-character strings.                           *)
(***************************************************************************)
EXTENDS Integers, Sequences, FiniteSets, TLC

\* ------------------------------------------------------------------ bounds
\* longest beat sequence the Analysis Engine returns in the pipeline model
MaxBeats == 4
\* longest beat sequence handed to _infer_downbeats_from_beats on its own
MaxDownLen == 9
\* largest beats_per_bar handed to _infer_downbeats_from_beats on its own
MaxPerBar == 5

\* ------------------------------------------------------- program constants
\* 0.02 s, the snap threshold of the grid offset, in milliseconds
SnapMs == 20
\* 1.0, the upper clip bound of the confidence, in hundredths
ConfOne == 100
\* beats_per_bar as fixed by analyze / analyze_v2
BeatsPerBar == 4

None == <<>>
Some(v) == <<v>>

\* --------------------------------------------------------------- inputs
BeatTimeValues == {0, 15, 30, 1000}
\* tempo estimates of the engine, in hundredths of a bpm: 0.04, 120.00, 128.05
TempoValues == {4, 12000, 12805}

RECURSIVE SeqsUpTo(_, _)
SeqsUpTo(S, n) ==
    IF n = 0 THEN {<<>>}
    ELSE LET shorter == SeqsUpTo(S, n - 1)
         IN  shorter \cup {Append(s, x) : s \in {t \in shorter : Len(t) = n - 1}, x \in S}

BeatSeqs == SeqsUpTo(BeatTimeValues, MaxBeats)

\* ------------------------------------------------------------ path strings
PathMp3 == <<"a", ".", "m", "p", "3">>
PathWav == <<"a", ".", "w", "a", "v">>
PathWAV == <<"a", ".", "W", "A", "V">>
PathDot == <<".", "w", "a", "v">>
InputPaths == {PathMp3, PathWav, PathWAV, PathDot}
TmpNames == {<<"t", "1", ".", "w", "a", "v">>, <<"t", "2", ".", "w", "a", "v">>}
AllPaths == InputPaths \cup TmpNames

\* str.lower(), character by character
LowerChar(c) ==
    CASE c = "W" -> "w"
      [] c = "A" -> "a"
      [] c = "V" -> "v"
      [] OTHER -> c

Lower(s) == [i \in 1..Len(s) |-> LowerChar(s[i])]

\* str.rfind(ch): the highest 0-based index of ch in s, or -1
RECURSIVE RFindFrom(_, _, _)
RFindFrom(s, ch, i) ==
    IF i < 0 THEN 0 - 1
    ELSE IF s[i + 1] = ch THEN i
    ELSE RFindFrom(s, ch, i - 1)

RFind(s, ch) == RFindFrom(s, ch, Len(s) - 1)

\* the while loop of genericpath._splitext: is some character in
\* s[filenameIndex .. dotIndex-1] not a dot?
RECURSIVE NonDotBefore(_, _, _)
NonDotBefore(s, filenameIndex, dotIndex) ==
    IF filenameIndex >= dotIndex THEN FALSE
    ELSE IF s[filenameIndex + 1] # "." THEN TRUE
    ELSE NonDotBefore(s, filenameIndex + 1, dotIndex)

\* os.path.splitext(p): <<root, ext>>
Splitext(p) ==
    LET sepIndex == RFind(p, "/")
        dotIndex == RFind(p, ".")
    IN  IF dotIndex > sepIndex /\ NonDotBefore(p, sepIndex + 1, dotIndex)
        THEN <<SubSeq(p, 1, dotIndex), SubSeq(p, dotIndex + 1, Len(p))>>
        ELSE <<p, <<>>>>

DotWav == <<".", "w", "a", "v">>

\* the extension test without .lower()
IsCanonicalCaseSensitive(input_path) == Splitext(input_path)[2] = DotWav

\* ext = os.path.splitext(input_path)[1].lower(); ext == ".wav"
IsCanonical(input_path) == Lower(Splitext(input_path)[2]) = DotWav

\* ------------------------------------------------------------- arithmetic
Abs(x) == IF x < 0 THEN 0 - x ELSE x

\* np.round(x, 1): round half to even; n is in hundredths, the result in tenths
RoundTenths(n) ==
    LET q == n \div 10
        r == n % 10
    IN  IF 2 * r < 10 THEN q
        ELSE IF 2 * r > 10 THEN q + 1
        ELSE IF q % 2 = 0 THEN q ELSE q + 1

\* bpm = float(np.round(float(tempo), 1)) if tempo is not None else None
RoundBpm(tempo) == IF tempo # None THEN Some(RoundTenths(tempo[1])) ELSE None

Rat(n, d) == [num |-> n, den |-> d]
RatZero == Rat(0, 1)
RatLess(a, b) == a.num * b.den < b.num * a.den
RatAbs(a) == Rat(Abs(a.num), a.den)
\* the first beat time taken as the offset, with no reduction modulo the period
RatModMissing(a, b) == a
\* a % b for b > 0: the remainder has the sign of b
RatMod(a, b) == Rat((a.num * b.den) % (b.num * a.den), a.den * b.den)

\* 60.0 / bpm in milliseconds, bpm in tenths
BeatPeriod(bpm10) == Rat(60 * 1000 * 10, bpm10)

\* the truth value of "bpm and bpm > 0"
BpmUsable(bpm) == bpm # None /\ bpm[1] # 0 /\ bpm[1] > 0

\* variant 1 without the snap of offsets under 20 ms
GridOffsetV1NoSnap(bpm, beat_times) ==
    IF BpmUsable(bpm) /\ beat_times # <<>>
    THEN RatMod(Rat(beat_times[1], 1), BeatPeriod(bpm[1]))
    ELSE RatZero

\* variant 1, lines 91-99
GridOffsetV1(bpm, beat_times) ==
    IF BpmUsable(bpm) /\ beat_times # <<>>
    THEN LET beat_period == BeatPeriod(bpm[1])
             raw == Rat(beat_times[1], 1)
             offset == RatMod(raw, beat_period)
         IN  IF RatLess(RatAbs(offset), Rat(SnapMs, 1)) THEN RatZero ELSE offset
    ELSE RatZero

\* variant 2, lines 95-99
GridOffsetV2(bpm, beat_times) ==
    IF BpmUsable(bpm) /\ beat_times # <<>>
    THEN LET period == BeatPeriod(bpm[1])
             off == RatMod(Rat(beat_times[1], 1), period)
         IN  IF RatLess(RatAbs(off), Rat(SnapMs, 1)) THEN RatZero ELSE off
    ELSE RatZero

\* np.diff
Diff(s) == [i \in 1..(Len(s) - 1) |-> s[i + 1] - s[i]]

RECURSIVE SumSeq(_)
SumSeq(s) == IF s = <<>> THEN 0 ELSE s[1] + SumSeq(Tail(s))

RECURSIVE ISqrtBetween(_, _, _)
ISqrtBetween(x, lo, hi) ==
    IF lo >= hi THEN lo
    ELSE LET mid == (lo + hi + 1) \div 2
         IN  IF mid * mid <= x THEN ISqrtBetween(x, mid, hi)
             ELSE ISqrtBetween(x, lo, mid - 1)

\* floor of the square root
ISqrt(x) == ISqrtBetween(x, 0, IF x < 46340 THEN x ELSE 46340)

\* no clipping at all
ClipMissing(x, lo, hi) == x

\* np.clip
Clip(x, lo, hi) == IF x < lo THEN lo ELSE IF x > hi THEN hi ELSE x

\* np.std(diffs) / (np.mean(diffs) + 1e-6) in hundredths, rounded down.
\* With n intervals in ms of sum S and sum of squares Q the population
\* deviation is sqrt(n*Q - S*S)/n and the mean S/n, and 1e-6 s is 1/1000 ms,
\* so the quotient is 1000*sqrt(n*Q - S*S) / (1000*S + n).
Unsteadiness(diffs) ==
    LET n == Len(diffs)
        S == SumSeq(diffs)
        Q == SumSeq([i \in 1..n |-> diffs[i] * diffs[i]])
        V == n * Q - S * S
    IN  (ConfOne * 100 * ISqrt(100 * V)) \div (1000 * S + n)

\* variant 1, lines 102-108
StabilityV1(beat_times) ==
    IF Len(beat_times) >= 3
    THEN LET diffs == Diff(beat_times)
         IN  IF \A i \in 1..Len(diffs) : diffs[i] > 0
             THEN Some(Clip(ConfOne - Unsteadiness(diffs), 0, ConfOne))
             ELSE None
    ELSE None

\* variant 2 scoring from two beats on
StabilityV2FromTwoBeats(beat_times) ==
    IF Len(beat_times) >= 2
    THEN LET diffs == Diff(beat_times)
         IN  IF \A i \in 1..Len(diffs) : diffs[i] > 0
             THEN Some(Clip(ConfOne - Unsteadiness(diffs), 0, ConfOne))
             ELSE None
    ELSE None

\* variant 2, lines 102-108
StabilityV2(beat_times) ==
    IF Len(beat_times) >= 3
    THEN LET diffs == Diff(beat_times)
         IN  IF \A i \in 1..Len(diffs) : diffs[i] > 0
             THEN Some(Clip(ConfOne - Unsteadiness(diffs), 0, ConfOne))
             ELSE None
    ELSE None

\* range(start, stop, step) for step >= 1
RECURSIVE Range(_, _, _)
Range(start, stop, step) ==
    IF start >= stop THEN <<>>
    ELSE <<start>> \o Range(start + step, stop, step)

\* every Nth beat counted from the Nth instead of the first
InferDownbeatsFromNth(beat_times, beats_per_bar) ==
    IF beat_times = <<>> \/ beats_per_bar < 1 THEN <<>>
    ELSE LET idx == Range(beats_per_bar - 1, Len(beat_times), beats_per_bar)
         IN  [k \in 1..Len(idx) |-> beat_times[idx[k] + 1]]

\* variant 2, lines 57-62
InferDownbeats(beat_times, beats_per_bar) ==
    IF beat_times = <<>> \/ beats_per_bar < 1 THEN <<>>
    ELSE LET idx == Range(0, Len(beat_times), beats_per_bar)
         IN  [k \in 1..Len(idx) |-> beat_times[idx[k] + 1]]

\* ------------------------------------------------------------ file contents
\* What a file holds, as far as the decoder and the Analysis Engine can tell:
\* nothing there, a zero-byte file, undecodable bytes, a stream the decoder
\* converts but the engine rejects, or audio with the tempo and beat times
\* (frames_to_time of the beat frames) the engine finds in it.  made_by tells
\* files of the same name apart: the invocation whose mkstemp created the
\* file, or 0 for a file that was there before.
File(kind, tempo, beats) ==
    [kind |-> kind, tempo |-> tempo, beats |-> beats, made_by |-> 0]
NoFile == File("nofile", None, <<>>)
EmptyFile == File("empty", None, <<>>)
Garbage == File("garbage", None, <<>>)
NoAudio == File("noaudio", None, <<>>)
Audio(tempo, beats) == File("audio", tempo, beats)
\* the temporary file of invocation p, holding content
Temp(p, content) == [content EXCEPT !.made_by = p]

Tempos == {None} \cup {Some(t) : t \in TempoValues}
Contents == {NoFile, Garbage, NoAudio} \cup {Audio(t, b) : t \in Tempos, b \in BeatSeqs}
ConcContents ==
    {NoFile, NoAudio, Audio(Some(12000), <<0, 15, 30>>), Audio(Some(12805), <<1000>>)}
FfmpegEnvs == {"ok", "missing"}

Procs == {1, 2}

VARIABLES
    fs,            \* the disk: path -> file contents
    disk0,         \* the disk when the invocations started
    variant,       \* per invocation: 1 = analyze, 2 = analyze_v2
    audio_path,    \* per invocation: args.path
    ffmpeg_env,    \* per invocation: whether the FFMPEG executable can be launched
    pc,            \* per invocation: the statement it is at
    tmp_path,      \* per invocation: tmp_path of _decode_to_wav
    wav_path,      \* per invocation: wav_path of analyze
    should_delete, \* per invocation: should_delete of analyze
    result,        \* per invocation: the value analyze is returning
    exc,           \* per invocation: the exception in flight
    stdout,        \* per invocation: records printed
    stderr,        \* per invocation: records written to sys.stderr
    exit_status,   \* per invocation: the process exit status
    launched,      \* per invocation: number of decoder launches
    log,           \* per invocation: the stages gone through, in order
    fn_beats,      \* argument beat_times of a direct call of _infer_downbeats_from_beats
    fn_n,          \* argument beats_per_bar of that call
    fn_out         \* its return value

vars == <<fs, disk0, variant, audio_path, ffmpeg_env, pc, tmp_path, wav_path,
          should_delete, result, exc, stdout, stderr, exit_status, launched, log,
          fn_beats, fn_n, fn_out>>

inputs == <<disk0, variant, audio_path, ffmpeg_env>>
fnvars == <<fn_beats, fn_n, fn_out>>

\* ------------------------------------------------------------- the records
AnalyzerV1 == "librosa_beat_track_v1"
AnalyzerV2 == "librosa_v2_beats_downbeats"

\* variant 1, lines 84-118, on the engine's tempo and beat times
ResultV1(tempo, beat_times) ==
    LET bpm == RoundBpm(tempo)
    IN  [bpm |-> bpm,
         gridOffsetSec |-> GridOffsetV1(bpm, beat_times),
         beatsPerBar |-> BeatsPerBar,
         beatTimesSec |-> beat_times,
         confidence |-> StabilityV1(beat_times),
         analyzer |-> AnalyzerV1]

\* variant 2, lines 84-118, on the engine's tempo and beat times
ResultV2(tempo, beat_times) ==
    LET bpm == RoundBpm(tempo)
    IN  [bpm |-> bpm,
         gridOffsetSec |-> GridOffsetV2(bpm, beat_times),
         beatsPerBar |-> BeatsPerBar,
         beatTimesSec |-> beat_times,
         downbeatTimesSec |-> InferDownbeats(beat_times, BeatsPerBar),
         confidence |-> StabilityV2(beat_times),
         analyzer |-> AnalyzerV2]

BuildResult(v, tempo, beat_times) ==
    IF v = 1 THEN ResultV1(tempo, beat_times) ELSE ResultV2(tempo, beat_times)

\* the text of the RuntimeError raised on a decoder failure: <<prefix, e.stderr>>
DecodeErrorMessage(v, diagnostic) ==
    IF v = 1 THEN <<"ffmpeg failed to decode input: ", diagnostic>>
    ELSE <<"ffmpeg decode failed: ", diagnostic>>

\* what the decoder writes to its stderr for an input it cannot convert
Diagnostic(content) ==
    IF content.kind = "nofile" THEN "No such file or directory"
    ELSE "Invalid data found when processing input"

\* str(e) of the OSError of subprocess.run for an executable that is not there
LaunchErrorMessage == <<"", "[Errno 2] No such file or directory: 'ffmpeg'">>

\* str(e) of what librosa raises on a file it cannot analyse
LoadErrorMessage(content) ==
    IF content.kind = "nofile" THEN <<"", "[Errno 2] No such file or directory">>
    ELSE IF content.kind = "noaudio" THEN <<"", "can't extend empty axis 0 using modes other than 'constant' or 'empty'">>
    ELSE <<"", "Error opening file: Format not recognised.">>

\* subprocess.run(cmd, check=True): "missing" raises OSError, "nonzero" raises
\* CalledProcessError, "zero" returns
DecoderExit(env, content) ==
    IF env = "missing" THEN "missing"
    ELSE IF content.kind \in {"nofile", "empty", "garbage"} THEN "nonzero"
    ELSE "zero"

\* a temporary name picked without looking at what exists
MkstempAnyName(disk) == TmpNames

\* tempfile.mkstemp: the names it may return, none of which exists
Mkstemp(disk) == {t \in TmpNames : disk[t] = NoFile}

\* ------------------------------------------------------------------ actions
\* _decode_to_wav, lines 29-31 (v2: 24-26)
CheckExt(p) ==
    /\ pc[p] = "start"
    /\ IF IsCanonical(audio_path[p])
       THEN /\ wav_path' = [wav_path EXCEPT ![p] = Some(audio_path[p])]
            /\ should_delete' = [should_delete EXCEPT ![p] = FALSE]
            /\ pc' = [pc EXCEPT ![p] = "load"]
            /\ log' = [log EXCEPT ![p] = Append(@, "decode_skipped")]
       ELSE /\ pc' = [pc EXCEPT ![p] = "mkstemp"]
            /\ UNCHANGED <<wav_path, should_delete, log>>
    /\ UNCHANGED <<fs, inputs, tmp_path, result, exc, stdout, stderr, exit_status,
                   launched, fnvars>>

\* _decode_to_wav, lines 36-37 (v2: 29-30)
MakeTemp(p) ==
    /\ pc[p] = "mkstemp"
    /\ \E t \in Mkstemp(fs) :
          /\ fs' = [fs EXCEPT ![t] = Temp(p, EmptyFile)]
          /\ tmp_path' = [tmp_path EXCEPT ![p] = Some(t)]
    /\ pc' = [pc EXCEPT ![p] = "ffmpeg"]
    /\ log' = [log EXCEPT ![p] = Append(@, "tmp_created")]
    /\ UNCHANGED <<inputs, wav_path, should_delete, result, exc, stdout, stderr,
                   exit_status, launched, fnvars>>

\* _decode_to_wav, lines 52-60 (v2: 44-47): the decoder runs to its end
RunFfmpeg(p) ==
    /\ pc[p] = "ffmpeg"
    /\ launched' = [launched EXCEPT ![p] = @ + 1]
    /\ LET content == fs[audio_path[p]]
           status == DecoderExit(ffmpeg_env[p], content)
       IN  CASE status = "zero" ->
                  /\ fs' = [fs EXCEPT ![tmp_path[p][1]] = Temp(p, content)]
                  /\ wav_path' = [wav_path EXCEPT ![p] = tmp_path[p]]
                  /\ should_delete' = [should_delete EXCEPT ![p] = TRUE]
                  /\ pc' = [pc EXCEPT ![p] = "load"]
                  /\ log' = [log EXCEPT ![p] = Append(@, "decoder_zero")]
                  /\ UNCHANGED exc
             [] status = "nonzero" ->
                  /\ \E partial \in {EmptyFile, Garbage} :
                        fs' = [fs EXCEPT ![tmp_path[p][1]] = Temp(p, partial)]
                  /\ exc' = [exc EXCEPT ![p] =
                                Some(DecodeErrorMessage(variant[p], Diagnostic(content)))]
                  /\ pc' = [pc EXCEPT ![p] = "decode_failed"]
                  /\ log' = [log EXCEPT ![p] = Append(@, "decoder_nonzero")]
                  /\ UNCHANGED <<wav_path, should_delete>>
             [] status = "missing" ->
                  /\ exc' = [exc EXCEPT ![p] = Some(LaunchErrorMessage)]
                  /\ pc' = [pc EXCEPT ![p] = "except"]
                  /\ log' = [log EXCEPT ![p] = Append(@, "decoder_missing")]
                  /\ UNCHANGED <<fs, wav_path, should_delete>>
    /\ UNCHANGED <<inputs, tmp_path, result, stdout, stderr, exit_status, fnvars>>

\* _decode_to_wav, lines 60-67 (v2: 47-54): except CalledProcessError
DecodeFailed(p) ==
    /\ pc[p] = "decode_failed"
    /\ fs' = [fs EXCEPT ![tmp_path[p][1]] = NoFile]
    /\ pc' = [pc EXCEPT ![p] = "except"]
    /\ log' = [log EXCEPT ![p] = Append(@, "tmp_removed")]
    /\ UNCHANGED <<inputs, tmp_path, wav_path, should_delete, result, exc, stdout,
                   stderr, exit_status, launched, fnvars>>

\* analyze, lines 73-118 (analyze_v2: 71-118): the body of the try
AnalyzeBody(p) ==
    /\ pc[p] = "load"
    /\ LET content == fs[wav_path[p][1]]
       IN  IF content.kind = "audio"
           THEN /\ result' = [result EXCEPT ![p] =
                                Some(BuildResult(variant[p], content.tempo, content.beats))]
                /\ log' = [log EXCEPT ![p] = Append(@, "analysis_ok")]
                /\ UNCHANGED exc
           ELSE /\ exc' = [exc EXCEPT ![p] = Some(LoadErrorMessage(content))]
                /\ log' = [log EXCEPT ![p] = Append(@, "analysis_raised")]
                /\ UNCHANGED result
    /\ pc' = [pc EXCEPT ![p] = "finally"]
    /\ UNCHANGED <<fs, inputs, tmp_path, wav_path, should_delete, stdout, stderr,
                   exit_status, launched, fnvars>>

\* analyze, lines 119-124: the finally clause
Finally(p) ==
    /\ pc[p] = "finally"
    /\ IF should_delete[p]
       THEN /\ fs' = [fs EXCEPT ![wav_path[p][1]] = NoFile]
            /\ log' = [log EXCEPT ![p] = Append(@, "tmp_removed")]
       ELSE UNCHANGED <<fs, log>>
    /\ pc' = [pc EXCEPT ![p] = IF exc[p] # None THEN "except" ELSE "print"]
    /\ UNCHANGED <<inputs, tmp_path, wav_path, should_delete, result, exc, stdout,
                   stderr, exit_status, launched, fnvars>>

\* main, lines 133-134: print(json.dumps(result)), then the process ends
MainPrint(p) ==
    /\ pc[p] = "print"
    /\ stdout' = [stdout EXCEPT ![p] = Append(@, result[p][1])]
    /\ exit_status' = [exit_status EXCEPT ![p] = Some(0)]
    /\ pc' = [pc EXCEPT ![p] = "done"]
    /\ log' = [log EXCEPT ![p] = Append(@, "grid_written")]
    /\ UNCHANGED <<fs, inputs, tmp_path, wav_path, should_delete, result, exc, stderr,
                   launched, fnvars>>

\* the error record printed to stdout instead of written to stderr
MainExceptToStdout(p) ==
    /\ pc[p] = "except"
    /\ stdout' = [stdout EXCEPT ![p] = Append(@, [error |-> exc[p][1]])]
    /\ exit_status' = [exit_status EXCEPT ![p] = Some(1)]
    /\ pc' = [pc EXCEPT ![p] = "done"]
    /\ log' = [log EXCEPT ![p] = Append(@, "error_written")]
    /\ UNCHANGED <<fs, inputs, tmp_path, wav_path, should_delete, result, exc, stderr,
                   launched, fnvars>>

\* main, lines 135-138: except Exception
MainExcept(p) ==
    /\ pc[p] = "except"
    /\ stderr' = [stderr EXCEPT ![p] = Append(@, [error |-> exc[p][1]])]
    /\ exit_status' = [exit_status EXCEPT ![p] = Some(1)]
    /\ pc' = [pc EXCEPT ![p] = "done"]
    /\ log' = [log EXCEPT ![p] = Append(@, "error_written")]
    /\ UNCHANGED <<fs, inputs, tmp_path, wav_path, should_delete, result, exc, stdout,
                   launched, fnvars>>

\* a direct call of _infer_downbeats_from_beats(fn_beats, fn_n)
CallInferDownbeats ==
    /\ fn_out = None
    /\ fn_out' = Some(InferDownbeats(fn_beats, fn_n))
    /\ UNCHANGED <<fs, inputs, pc, tmp_path, wav_path, should_delete, result, exc,
                   stdout, stderr, exit_status, launched, log, fn_beats, fn_n>>

\* ------------------------------------------------------------ specifications
InitLocals(startpc) ==
    /\ pc = [p \in Procs |-> startpc]
    /\ tmp_path = [p \in Procs |-> None]
    /\ wav_path = [p \in Procs |-> None]
    /\ should_delete = [p \in Procs |-> FALSE]
    /\ result = [p \in Procs |-> None]
    /\ exc = [p \in Procs |-> None]
    /\ stdout = [p \in Procs |-> <<>>]
    /\ stderr = [p \in Procs |-> <<>>]
    /\ exit_status = [p \in Procs |-> None]
    /\ launched = [p \in Procs |-> 0]
    /\ log = [p \in Procs |-> <<>>]

\* variant 1 and variant 2 side by side on one input, one decoder, one disk
Init ==
    /\ \E path \in InputPaths, env \in FfmpegEnvs, c \in Contents :
          /\ fs = [q \in AllPaths |-> IF q = path THEN c ELSE NoFile]
          /\ audio_path = [p \in Procs |-> path]
          /\ ffmpeg_env = [p \in Procs |-> env]
    /\ disk0 = fs
    /\ variant = [p \in Procs |-> p]
    /\ InitLocals("start")
    /\ fn_beats = <<>> /\ fn_n = BeatsPerBar /\ fn_out = None

Next ==
    \E p \in Procs :
        \/ CheckExt(p)
        \/ MakeTemp(p)
        \/ RunFfmpeg(p)
        \/ DecodeFailed(p)
        \/ AnalyzeBody(p)
        \/ Finally(p)
        \/ MainPrint(p)
        \/ MainExcept(p)

Spec == Init /\ [][Next]_vars

\* two concurrent invocations, of either variant, on two different input files
InitConc ==
    /\ \E p1 \in InputPaths, p2 \in InputPaths, c1 \in ConcContents, c2 \in ConcContents :
          /\ p1 # p2
          /\ fs = [q \in AllPaths |-> IF q = p1 THEN c1 ELSE IF q = p2 THEN c2 ELSE NoFile]
          /\ audio_path = [p \in Procs |-> IF p = 1 THEN p1 ELSE p2]
    /\ ffmpeg_env \in [Procs -> FfmpegEnvs]
    /\ variant \in [Procs -> {1, 2}]
    /\ disk0 = fs
    /\ InitLocals("start")
    /\ fn_beats = <<>> /\ fn_n = BeatsPerBar /\ fn_out = None

SpecConc == InitConc /\ [][Next]_vars

\* beat sequences first, first+step, ... for a direct call of the downbeat inferrer
Ramp(first, step, len) == [i \in 1..len |-> first + (i - 1) * step]

InitDownbeats ==
    /\ fs = [q \in AllPaths |-> NoFile]
    /\ disk0 = fs
    /\ audio_path = [p \in Procs |-> PathWav]
    /\ ffmpeg_env = [p \in Procs |-> "ok"]
    /\ variant = [p \in Procs |-> 2]
    /\ InitLocals("idle")
    /\ \E first \in BeatTimeValues, step \in {0, 468, 500}, len \in 0..MaxDownLen :
          fn_beats = Ramp(first, step, len)
    /\ fn_n \in (0 - 1)..MaxPerBar
    /\ fn_out = None

NextDownbeats == CallInferDownbeats

SpecDownbeats == InitDownbeats /\ [][NextDownbeats]_vars

\* ================================================================== claims
Done(p) == pc[p] = "done"
Has(p, stage) == \E i \in 1..Len(log[p]) : log[p][i] = stage
IsGrid(r) == "analyzer" \in DOMAIN r
IsError(r) == "error" \in DOMAIN r
GridsOf(p) == {stdout[p][i] : i \in {j \in 1..Len(stdout[p]) : IsGrid(stdout[p][j])}}
Emitted(p) == stdout[p] # <<>> \/ stderr[p] # <<>>
\* the temporary file invocation p created has not been removed by p
HoldsTemp(p) == tmp_path[p] # None /\ ~Has(p, "tmp_removed")
\* the inputs of the model whose extension is ".wav" in any letter case
WavInputs == {PathWav, PathWAV}
FieldsV1 == {"bpm", "gridOffsetSec", "beatsPerBar", "beatTimesSec", "confidence", "analyzer"}
FieldsV2 == FieldsV1 \cup {"downbeatTimesSec"}

\* C1: when an invocation on a non-.wav input has terminated, the temporary
\* file it created no longer exists, whichever way it ended.
C1_TempGoneOnEveryExit ==
    \A p \in Procs :
        (Done(p) /\ audio_path[p] \notin WavInputs)
            => \A t \in AllPaths : fs[t].made_by # p

\* C2: a terminated invocation has emitted exactly one record, a complete
\* BeatGrid on stdout with status 0 or an error record on stderr with status 1;
\* nothing is emitted before that, a BeatGrid is never written after a failed
\* decode or analysis, and never together with an error record.
C2_ExactlyOneRecord ==
    \A p \in Procs :
        /\ Done(p) =>
              \/ /\ Len(stdout[p]) = 1 /\ stderr[p] = <<>>
                 /\ IsGrid(stdout[p][1])
                 /\ DOMAIN stdout[p][1] = (IF variant[p] = 1 THEN FieldsV1 ELSE FieldsV2)
                 /\ exit_status[p] = Some(0)
              \/ /\ stdout[p] = <<>> /\ Len(stderr[p]) = 1
                 /\ DOMAIN stderr[p][1] = {"error"}
                 /\ exit_status[p] = Some(1)
        /\ ~Done(p) => (stdout[p] = <<>> /\ stderr[p] = <<>> /\ exit_status[p] = None)
        /\ (Has(p, "decoder_nonzero") \/ Has(p, "decoder_missing") \/ Has(p, "analysis_raised"))
              => stdout[p] = <<>>

C2_Witness ==
    /\ Done(1) /\ Has(1, "analysis_raised") /\ Len(stderr[1]) = 1
    /\ Has(1, "decoder_zero")

\* C3: in every emitted BeatGrid with bpm > 0 and at least one beat,
\* 0 <= gridOffsetSec < 60/bpm.
C3_OffsetWithinPeriod ==
    \A p \in Procs : \A g \in GridsOf(p) :
        (g.bpm # None /\ g.bpm[1] > 0 /\ g.beatTimesSec # <<>>)
            => /\ g.gridOffsetSec.den > 0
               /\ 0 <= g.gridOffsetSec.num
               /\ g.gridOffsetSec.num * g.bpm[1] < 60 * 1000 * 10 * g.gridOffsetSec.den

\* a grid whose first beat lies beyond one beat period and off the grid
C3_Witness ==
    \E p \in Procs : \E g \in GridsOf(p) :
        /\ g.bpm = Some(1280) /\ g.beatTimesSec # <<>> /\ g.beatTimesSec[1] = 1000
        /\ g.gridOffsetSec.num > 0

\* C4: in every emitted BeatGrid the confidence is null or in [0,1]; it is
\* null with fewer than 3 beats or with a non-positive interval, and otherwise
\* a value in [0,1], which is 1 when all the intervals are equal.
C4_ConfidenceRange ==
    \A p \in Procs : \A g \in GridsOf(p) :
        LET b == g.beatTimesSec
            degenerate == Len(b) < 3 \/ \E i \in 1..(Len(b) - 1) : b[i + 1] <= b[i]
            steady == \A i \in 1..(Len(b) - 1) : b[i + 1] - b[i] = b[2] - b[1]
        IN  /\ degenerate => g.confidence = None
            /\ ~degenerate => /\ g.confidence # None
                              /\ 0 <= g.confidence[1] /\ g.confidence[1] <= ConfOne
            /\ (~degenerate /\ steady) => g.confidence = Some(ConfOne)

\* beats so uneven that 1 - std/mean is negative before the clip
C4_Witness ==
    \E p \in Procs : \E g \in GridsOf(p) :
        g.beatTimesSec = <<0, 15, 30, 1000>> /\ g.confidence = Some(0)

RECURSIVE Remainder(_, _)
Remainder(a, m) == IF a < m THEN a ELSE Remainder(a - m, m)

\* the reference grid offset of section 4.3
RefOffset(bpm, beats) ==
    IF bpm = None THEN RatZero
    ELSE IF bpm[1] <= 0 \/ beats = <<>> THEN RatZero
    ELSE LET r == Remainder(beats[1] * bpm[1], 60 * 1000 * 10)
         IN  IF r < SnapMs * bpm[1] THEN RatZero ELSE Rat(r, bpm[1])

\* C6: the gridOffsetSec of every emitted BeatGrid is the reference value:
\* 0 when bpm is null or not positive or there is no beat, else
\* r = first beat mod 60/bpm, snapped to 0 when r < 0.02 s.
C6_OffsetIsReference ==
    \A p \in Procs : \A g \in GridsOf(p) :
        LET ref == RefOffset(g.bpm, g.beatTimesSec)
        IN  /\ g.gridOffsetSec.num * ref.den = ref.num * g.gridOffsetSec.den
            /\ g.gridOffsetSec.den > 0

\* bpm 128.0 and a first beat at 0.015 s: snapped to 0 (by variant 1)
C6_Witness ==
    /\ variant[1] = 1
    /\ \E g \in GridsOf(1) :
          /\ g.bpm = Some(1280) /\ g.beatTimesSec # <<>> /\ g.beatTimesSec[1] = 15
          /\ g.gridOffsetSec = RatZero

\* C7: an invocation on a .wav input (in any letter case) never launches the
\* decoder, never creates a temporary file and leaves its input file as it was.
C7_CanonicalInputUntouched ==
    \A p \in Procs :
        audio_path[p] \in WavInputs =>
            /\ launched[p] = 0
            /\ tmp_path[p] = None
            /\ ~Has(p, "tmp_created") /\ ~Has(p, "tmp_removed")
            /\ \A t \in TmpNames : fs[t] = NoFile
            /\ fs[audio_path[p]] = disk0[audio_path[p]]

\* an upper-case .WAV input that exists, after the Analysis Engine raised
C7_Witness ==
    /\ audio_path[1] = PathWAV /\ Done(1) /\ Has(1, "analysis_raised")
    /\ fs[PathWAV].kind = "noaudio"

\* what one invocation emits when it runs with nothing else running
RunAlone(v, path, env, content) ==
    LET analysed ==
            IF content.kind = "audio"
            THEN [out |-> <<BuildResult(v, content.tempo, content.beats)>>, err |-> <<>>]
            ELSE [out |-> <<>>, err |-> <<[error |-> LoadErrorMessage(content)]>>]
    IN  IF path \in WavInputs THEN analysed
        ELSE IF env = "missing"
             THEN [out |-> <<>>, err |-> <<[error |-> LaunchErrorMessage]>>]
        ELSE IF content.kind \in {"nofile", "empty", "garbage"}
             THEN [out |-> <<>>,
                   err |-> <<[error |-> DecodeErrorMessage(v, Diagnostic(content))]>>]
        ELSE analysed

\* C8: concurrent invocations on different inputs hold distinct temporary
\* files, none removes or overwrites a file of another (temporary or input),
\* and each emits the record it would have emitted alone.
C8_Isolation ==
    /\ (HoldsTemp(1) /\ HoldsTemp(2)) => tmp_path[1] # tmp_path[2]
    /\ \A q \in InputPaths : fs[q] = disk0[q]
    /\ \A p \in Procs :
          /\ HoldsTemp(p) =>
                LET mine == fs[tmp_path[p][1]]
                IN  CASE pc[p] = "ffmpeg" -> mine = Temp(p, EmptyFile)
                      [] pc[p] = "decode_failed" ->
                             mine \in {Temp(p, EmptyFile), Temp(p, Garbage)}
                      [] pc[p] \in {"load", "finally"} ->
                             mine = Temp(p, disk0[audio_path[p]])
                      [] OTHER -> mine = Temp(p, EmptyFile)
          /\ Done(p) =>
                LET alone == RunAlone(variant[p], audio_path[p], ffmpeg_env[p],
                                      disk0[audio_path[p]])
                IN  stdout[p] = alone.out /\ stderr[p] = alone.err

\* both invocations hold a decoded temporary file at the same time
C8_Witness ==
    /\ HoldsTemp(1) /\ HoldsTemp(2)
    /\ pc[1] = "finally" /\ pc[2] = "load"
    /\ should_delete[1] /\ should_delete[2]

\* a record without what tells the variants apart
Common(r) ==
    IF IsGrid(r)
    THEN [bpm |-> r.bpm, gridOffsetSec |-> r.gridOffsetSec, beatsPerBar |-> r.beatsPerBar,
          beatTimesSec |-> r.beatTimesSec, confidence |-> r.confidence]
    ELSE r

RecordOf(p) == IF stdout[p] # <<>> THEN stdout[p][1] ELSE stderr[p][1]

\* the variants went through the same stages, temporary file included, and
\* ended the same way
SameCourse ==
    /\ log[1] = log[2]
    /\ (tmp_path[1] = None) <=> (tmp_path[2] = None)
    /\ (stdout[1] = <<>>) <=> (stdout[2] = <<>>)
    /\ exit_status[1] = exit_status[2]
    /\ HoldsTemp(1) <=> HoldsTemp(2)

\* C9 as stated: on the same input, decoder outcome and engine output the two
\* variants agree on every field, on the outcome and on the temporary file,
\* and their records differ only in the analyzer tag and downbeatTimesSec.
C9_RecordsDifferOnlyInTag ==
    (Done(1) /\ Done(2)) =>
        /\ SameCourse
        /\ Common(RecordOf(1)) = Common(RecordOf(2))
        /\ IsGrid(RecordOf(1)) =>
              /\ RecordOf(1).analyzer = AnalyzerV1 /\ RecordOf(2).analyzer = AnalyzerV2
              /\ DOMAIN RecordOf(2) = DOMAIN RecordOf(1) \cup {"downbeatTimesSec"}

\* C9 amended: as stated for BeatGrids; two error records are equal too,
\* except after a decoder exit with non-zero status, where they carry the same
\* decoder diagnostic behind different fixed texts.
C9_Amended ==
    (Done(1) /\ Done(2)) =>
        /\ SameCourse
        /\ IsGrid(RecordOf(1)) <=> IsGrid(RecordOf(2))
        /\ IsGrid(RecordOf(1)) =>
              /\ Common(RecordOf(1)) = Common(RecordOf(2))
              /\ RecordOf(1).analyzer = AnalyzerV1 /\ RecordOf(2).analyzer = AnalyzerV2
              /\ DOMAIN RecordOf(2) = DOMAIN RecordOf(1) \cup {"downbeatTimesSec"}
        /\ (IsError(RecordOf(1)) /\ ~Has(1, "decoder_nonzero")) => RecordOf(1) = RecordOf(2)
        /\ (IsError(RecordOf(1)) /\ Has(1, "decoder_nonzero")) =>
              /\ RecordOf(1).error[2] = RecordOf(2).error[2]
              /\ RecordOf(1).error[1] = "ffmpeg failed to decode input: "
              /\ RecordOf(2).error[1] = "ffmpeg decode failed: "

\* both variants ended on a decoder failure, with different error texts
C9_Witness ==
    /\ Done(1) /\ Done(2) /\ Has(1, "decoder_nonzero") /\ Has(2, "decoder_nonzero")
    /\ RecordOf(1) # RecordOf(2)

EngineRan(p) == Has(p, "analysis_ok") \/ Has(p, "analysis_raised")
\* in the course of p, every stage a came before every stage b
Before(p, a, b) ==
    \A i \in 1..Len(log[p]), j \in 1..Len(log[p]) :
        (log[p][i] = a /\ log[p][j] = b) => i < j
DecodeStages == {"decode_skipped", "tmp_created", "decoder_zero", "decoder_nonzero",
                 "decoder_missing"}
AnalysisStages == {"analysis_ok", "analysis_raised"}
EmissionStages == {"grid_written", "error_written"}

\* C10: the stages of one invocation come in the order decode, analysis,
\* cleanup, emission: the engine runs only after a decoder exit with status 0
\* or a skipped decode and never after a decoder failure, an owned temporary
\* file exists from decoder completion until the analysis ended, and the
\* temporary file is deleted before the record is written.
C10_StageOrder ==
    \A p \in Procs :
        /\ (pc[p] = "load" \/ EngineRan(p)) =>
              /\ Has(p, "decode_skipped") \/ Has(p, "decoder_zero")
              /\ ~Has(p, "decoder_nonzero") /\ ~Has(p, "decoder_missing")
        /\ \A a \in DecodeStages, b \in AnalysisStages : Before(p, a, b)
        /\ \A a \in DecodeStages \cup AnalysisStages : Before(p, a, "tmp_removed")
        /\ \A a \in DecodeStages \cup AnalysisStages \cup {"tmp_removed"},
              b \in EmissionStages : Before(p, a, b)
        /\ (should_delete[p] /\ pc[p] \in {"load", "finally"}) =>
              fs[wav_path[p][1]].made_by = p
        /\ Emitted(p) => \A t \in AllPaths : fs[t].made_by # p

====
